---- MODULE Spec2Model ----
(***************************************************************************)
(* Catalog synchronisation of Caramel-Music: the /api/browse/:id handler   *)
(* of front-end/vite.config.js (the fine-grained variant), with the cache   *)
(* file database.json, the album-art directory and the per-item enrichment  *)
(* tasks of transformDIDLData; and the handler of back-end/server.js (the   *)
(* coarse variant), which rescans the whole listing when its id set changed.*)
(*                                                                          *)
(* JavaScript values are modelled as strings: Undefined and Null are the    *)
(* two "no value" tokens, Num7 is the number 7 (a tag value that            *)
(* fast-xml-parser's parseTagValue turned into a number), every other       *)
(* string is a JavaScript string.  An object is a record whose domain is    *)
(* the set of its own keys, so that JSON.stringify (which drops keys whose  *)
(* value is undefined) is not the identity.                                 *)
(*                                                                          *)
(* Pass-through fields of an item that no operation reads (album,           *)
(* duration, bitrate, nrAudioChannels) are represented by genre.            *)
(***************************************************************************)
EXTENDS Integers, Sequences, FiniteSets, TLC

VARIABLES
    variant,         \* which server runs: "fine" (vite.config.js) or "coarse" (server.js)
    dbFile,          \* database.json: [kind |-> "absent" | "blank" | "json", ...]
    albumArtDir,     \* names of the files in public/album-art
    pc,              \* position of the browse handler
    includeMetadata, \* req.query.metadata === "true"
    cached,          \* const cached = readDatabase()
    didl,            \* the parsed listing
    itemsToScan,     \* const itemsToScan
    toRemove,        \* const toRemove
    batchStart,      \* loop variable i of transformDIDLData (0-based)
    task,            \* the async callbacks of transformDIDLData, by item position
    items,           \* const items of transformDIDLData
    response,        \* what the handler sent
    mediaRequests,   \* outbound requests to item URLs issued by this pass
    dbWrites,        \* writeDatabase calls made by this pass
    diskAtStart,     \* dbFile when this pass started
    diskAfterRead,   \* dbFile when readDatabase returned
    replay,          \* this pass gets the listing of the pass before it again
    artPc,           \* position of the /api/album-art/:fileUrl handler of server.js
    tried,           \* the extraction strategies that handler has started, in order
    frame,           \* the parts the media file's trailing bytes were made of
    buffer,          \* const buffer of getAlbumArtForDSD
    albumArt,        \* const albumArt of the album-art handler
    artAnswer,       \* what the album-art handler sent
    fetchPc,         \* position of one item's getAudioMetadata and getAlbumArt
    fileSize,        \* the length of the media file the requests are for
    contentLength,   \* parseInt of the HEAD's content-length: [nan, val]
    range,           \* the Range header of getAlbumArt's GET
    probeTimeout,    \* delay of the abort timer on getAudioMetadata's GET, in ms
    artTimeout,      \* delay of the abort timer on getAlbumArt's GET, in ms
    pc2,             \* position of a second invocation of the browse handler
    cached2,         \* const cachedData of the second invocation
    response2,       \* what the second invocation sent
    persisted2,      \* the second invocation has called writeDatabase(merged)
    overlap,         \* the second invocation read the cache while the first ran
    silent           \* the media server has stopped answering requests

vars == <<variant, dbFile, albumArtDir, pc, includeMetadata, cached, didl, itemsToScan,
          toRemove, batchStart, task, items, response, mediaRequests, dbWrites,
          diskAtStart, diskAfterRead, replay, artPc, tried, frame, buffer,
          albumArt, artAnswer, fetchPc, fileSize, contentLength, range,
          probeTimeout, artTimeout, pc2, cached2, response2, persisted2, overlap,
          silent>>

\* the variables of the browse handler, and those of the album-art handler
browseVars == <<variant, dbFile, albumArtDir, pc, includeMetadata, cached, didl,
                itemsToScan, toRemove, batchStart, task, items, response,
                mediaRequests, dbWrites, diskAtStart, diskAfterRead, replay>>

artVars == <<artPc, tried, frame, buffer, albumArt, artAnswer>>

\* the variables of one item's media requests
fetchVars == <<fileSize, fetchPc, contentLength, range, probeTimeout, artTimeout>>

\* the variables of a second invocation of the browse handler
pass2Vars == <<pc2, cached2, response2, persisted2, overlap>>

(***************************************************************************)
(* Bounds                                                                  *)
(***************************************************************************)
\* batch size of transformDIDLData in front-end/vite.config.js:304 (15),
\* scaled down so that short listings fill a batch
LIMIT == 2

\* batch size of transformDIDLData in back-end/server.js:193 (10), scaled down
\* likewise; it stays the smaller of the two
CONCURRENT_LIMIT == 1

\* the longest listing of SpecBatch: one item more than a batch of either variant
MaxLen == LIMIT + 1

(***************************************************************************)
(* JavaScript values                                                       *)
(***************************************************************************)
Undefined == "undefined"
Null == "null"
Num7 == "n:7"

Falsy(v) == v \in {Undefined, Null, ""}

\* a || b
Or(a, b) == IF Falsy(a) THEN b ELSE a

IsString(v) == v \notin {Undefined, Null, Num7}

\* `${v}`
ToStr(v) == IF v = Num7 THEN "7" ELSE v

\* obj.key
Get(obj, key) == IF key \in DOMAIN obj THEN obj[key] ELSE Undefined

Range(s) == {s[k] : k \in 1..Len(s)}

\* quality is the one nested object of an item
ScalarKeys(obj) == DOMAIN obj \ {"quality"}

JsonItem(obj) ==
    [k \in {f \in DOMAIN obj : f \notin ScalarKeys(obj) \/ obj[f] # Undefined} |-> obj[k]]

(***************************************************************************)
(* The parsed XML: containers and items                                    *)
(***************************************************************************)
\* didl["DIDL-Lite"].container: absent, one object (a single child element is
\* not wrapped in an array by fast-xml-parser), or an array of two or more
NoContainer == [kind |-> "undef", val |-> <<>>]
OneContainer(c) == [kind |-> "obj", val |-> <<c>>]
ManyContainers(cs) == [kind |-> "arr", val |-> cs]
EmptyArray == [kind |-> "arr", val |-> <<>>]

ensureArray(v) == v.val

\* v?.length || 0: only an array has a length
LengthOrZero(v) == IF v.kind = "arr" THEN Len(v.val) ELSE 0

\* a || b for a container value: an object and an array (even empty) are truthy
OrValue(a, b) == IF a.kind = "undef" THEN b ELSE a

\* ensureArray(i.res)[0]?.["#text"]
ResolvedUrl(i) == IF Len(i.res) = 0 THEN Undefined ELSE i.res[1]

(***************************************************************************)
(* Database helpers                                                        *)
(***************************************************************************)
\* new Date().toISOString(): the clock is abstracted to one instant; the
\* writes themselves are counted in dbWrites
Now == "t"

\* const defaultData of readDatabase
defaultData == [containers |-> EmptyArray, items |-> <<>>,
                metadata |-> [lastUpdated |-> Null]]

\* the document writeDatabase(data) leaves in database.json
writeDatabase(data) ==
    [kind |-> "json",
     containers |-> OrValue(data.containers, EmptyArray),
     items |-> [k \in 1..Len(data.items) |-> JsonItem(data.items[k])],
     metadata |-> [lastUpdated |-> Now,
                   totalContainers |-> LengthOrZero(data.containers),
                   totalItems |-> Len(data.items)]]

\* JSON.parse(raw) of a document
ParseDoc(file) ==
    IF "metadata" \notin DOMAIN file /\ ~Falsy(Get(file, "lastUpdated"))
    THEN [containers |-> file.containers, items |-> file.items,
          metadata |-> [lastUpdated |-> file.lastUpdated]]
    ELSE [k \in DOMAIN file \ {"kind"} |-> file[k]]

\* readDatabase that returns the default snapshot and writes nothing
readDatabaseNoInit(file) == [data |-> defaultData, file |-> file, wrote |-> 0]

\* readDatabase that initialises the file whatever it holds
readDatabaseAlwaysInit(file) ==
    [data |-> defaultData, file |-> writeDatabase(defaultData), wrote |-> 1]

\* readDatabase(): the snapshot it returns and the file it leaves
readDatabase(file) ==
    IF file.kind \in {"absent", "blank"}
    THEN [data |-> defaultData, file |-> writeDatabase(defaultData), wrote |-> 1]
    ELSE [data |-> ParseDoc(file), file |-> file, wrote |-> 0]

(***************************************************************************)
(* The diff of the browse handler                                          *)
(***************************************************************************)
HasId(its, id) == \E k \in 1..Len(its) : its[k].id = id

\* cachedMap.get(id): the Map keeps the last entry of an id
MapGet(its, id) ==
    its[CHOOSE k \in 1..Len(its) :
            /\ its[k].id = id
            /\ \A j \in (k + 1)..Len(its) : its[j].id # id]

\* NeedsScan of a handler that scans every remote item
NeedsScanAlways(i, cachedItems) == TRUE

\* NeedsScan without the comparison of the URLs
NeedsScanTitleOnly(i, cachedItems) ==
    IF ~HasId(cachedItems, i.id) THEN TRUE
    ELSE i.dcTitle # Get(MapGet(cachedItems, i.id), "title")

\* the predicate of rawItems.filter(...) that makes itemsToScan
NeedsScan(i, cachedItems) ==
    IF ~HasId(cachedItems, i.id) THEN TRUE
    ELSE LET c == MapGet(cachedItems, i.id)
         IN  i.dcTitle # Get(c, "title") \/ ResolvedUrl(i) # Get(c, "url")

ItemsToScan(rawItems, cachedItems) ==
    SelectSeq(rawItems, LAMBDA i : NeedsScan(i, cachedItems))

\* ToRemove of a handler that drops no cached item
ToRemoveNone(rawItems, cachedItems) == << >>

\* cached.items.filter((i) => !dlnaIds.has(i.id))
ToRemove(rawItems, cachedItems) ==
    SelectSeq(cachedItems, LAMBDA c : ~HasId(rawItems, c.id))

(***************************************************************************)
(* transformDIDLData: the mapping of the raw items                         *)
(***************************************************************************)
TransformItem(i) ==
    [id |-> i.id,
     title |-> Or(i.dcTitle, "Unknown"),
     artist |-> Or(i.artist, "Unknown"),
     url |-> ResolvedUrl(i),
     genre |-> i.genre]

TransformItems(rawItems) == [k \in 1..Len(rawItems) |-> TransformItem(rawItems[k])]

(***************************************************************************)
(* The merge of the browse handler                                         *)
(***************************************************************************)
\* mergedMap.set(item.id, item): an existing key keeps its position
MapSet(m, item) ==
    IF HasId(m, item.id)
    THEN [k \in 1..Len(m) |-> IF m[k].id = item.id THEN item ELSE m[k]]
    ELSE Append(m, item)

RECURSIVE MapSetAll(_, _)
MapSetAll(m, its) ==
    IF its = <<>> THEN m ELSE MapSetAll(MapSet(m, Head(its)), Tail(its))

\* KeptItems without the filter on toRemove
KeptItemsUnfiltered(cachedItems, removed) == MapSetAll(<< >>, cachedItems)

\* new Map(cached.items.filter(not removed).map((i) => [i.id, i]))
KeptItems(cachedItems, removed) ==
    MapSetAll(<<>>, SelectSeq(cachedItems, LAMBDA i : ~HasId(removed, i.id)))

MergedItems(cachedItems, removed, newItems) ==
    MapSetAll(KeptItems(cachedItems, removed), newItems)

\* const merged
Merged(listing, snapshot, removed, newItems) ==
    LET its == MergedItems(snapshot.items, removed, newItems)
        cs == OrValue(listing.container, snapshot.containers)
    IN  [containers |-> cs,
         items |-> its,
         \* totalContainers: cs.length, undefined (no key) when cs is an object
         metadata |-> IF cs.kind = "arr"
                      THEN [lastUpdated |-> Now, totalContainers |-> Len(cs.val),
                            totalItems |-> Len(its)]
                      ELSE [lastUpdated |-> Now, totalItems |-> Len(its)]]

\* the body res.json(data) sends
JsonBody(data) ==
    [containers |-> data.containers,
     items |-> [k \in 1..Len(data.items) |-> JsonItem(data.items[k])],
     metadata |-> data.metadata]

(***************************************************************************)
(* Album art and audio metadata                                            *)
(***************************************************************************)
\* createFileName throws (name.replace is not a function) when name is still
\* the title, the title is not a string and no date is appended
createFileNameThrows(title, date, artist) ==
    /\ Falsy(artist) \/ artist = "Unknown"
    /\ ~IsString(title)
    /\ Falsy(date)

\* the titles, dates and artists of the model hold none of the characters
\* the two replace calls remove and are shorter than 200 characters
createFileName(title, date, artist) ==
    LET name == IF ~Falsy(artist) /\ artist # "Unknown"
                THEN ToStr(artist) \o " - " \o ToStr(title)
                ELSE ToStr(title)
    IN  IF ~Falsy(date) THEN name \o " (" \o ToStr(date) \o ")" ELSE name

\* the URLs are written without their `${IP}:${PORT}` prefix
ArtUrl(fullName) == "/public/album-art/" \o fullName
DefaultArtUrl == "/public/default.png"

checkAlbumArtCache(title, date, artist, dir) ==
    LET name == createFileName(title, date, artist)
        Hit(ext) == (name \o "." \o ext) \in dir
    IN  IF Hit("jpg") THEN ArtUrl(name \o ".jpg")
        ELSE IF Hit("jpeg") THEN ArtUrl(name \o ".jpeg")
        ELSE IF Hit("png") THEN ArtUrl(name \o ".png")
        ELSE Null

\* albumArt.format.split("/")[1] || "jpg"; a format is <<type, subtype>>
ArtExt(art) == Or(art.format[2], "jpg")

\* saveAlbumArtToFile: the directory it leaves and the path it returns
saveAlbumArtToFile(art, filename, dir) ==
    LET fullName == filename \o "." \o ArtExt(art)
    IN  [dir |-> dir \cup {fullName}, saved |-> ArtUrl(fullName)]

\* what the probe's ranged GET and mm.parseBuffer can yield: a failure (fetch
\* error, abort, status neither ok nor 206, parse error) or the parsed tags
ProbeFailed == [ok |-> FALSE]
ProbeTags(bits, rate, date, composer, lyrics) ==
    [ok |-> TRUE, bitsPerSample |-> bits, sampleRate |-> rate, date |-> date,
     composer |-> composer, lyrics |-> lyrics]

NoMeta == [ok |-> FALSE]

\* getAudioMetadata: null (NoMeta) or the metadata record; bitDepth and
\* sampleRate, read by classifyAudioQuality alone, are left to the labels
getAudioMetadata(resp) ==
    IF ~resp.ok THEN NoMeta
    ELSE [ok |-> TRUE,
          bitDepthLabel |-> IF resp.bitsPerSample # 0
                            THEN ToString(resp.bitsPerSample) \o "-bit" ELSE Null,
          sampleRateLabel |-> IF resp.sampleRate # 0
                              THEN ToString(resp.sampleRate \div 1000) \o "."
                                   \o ToString((resp.sampleRate % 1000) \div 100) \o "kHz"
                              ELSE Null,
          date |-> Or(resp.date, Null),
          composer |-> Or(resp.composer, Null),
          lyrics |-> Or(resp.lyrics, Null)]

\* the quality classifier of src/ultis/ClassifyAudioQuality.js
classifyAudioQuality(meta) ==
    [encoding |-> "PCM", label |-> "Lossless", tier |-> "lossless"]

\* const dateForFile = meta?.date || null
DateForFile(meta) == IF meta.ok THEN Or(meta.date, Null) ELSE Null

\* const out of the batch callback
BuildOut(item, artUrl, meta) ==
    LET q == classifyAudioQuality(meta)
        extra == IF ~meta.ok THEN << >>
                 ELSE [k \in {"quality"}
                         \cup (IF ~Falsy(meta.date) THEN {"date"} ELSE {})
                         \cup (IF ~Falsy(meta.composer) THEN {"composer"} ELSE {})
                         \cup (IF ~Falsy(meta.lyrics) THEN {"lyrics"} ELSE {})
                       |-> IF k = "quality"
                           THEN [encoding |-> q.encoding, label |-> q.label,
                                 tier |-> q.tier,
                                 bitDepth |-> Or(meta.bitDepthLabel, "16-bit"),
                                 sampleRate |-> Or(meta.sampleRateLabel, "44.1kHz")]
                           ELSE meta[k]]
    IN  extra @@ ("albumArtUrl" :> Or(artUrl, DefaultArtUrl)) @@ item

(***************************************************************************)
(* What the media server can answer                                        *)
(***************************************************************************)
Container(id) == [id |-> id]

RawItem(id, title, res, genre) ==
    [id |-> id, dcTitle |-> title, artist |-> Undefined, res |-> res, genre |-> genre]

SeqsUpTo(S, n) == UNION {[1..m -> S] : m \in 0..n}

ListingsOf(containerValues, rawItems, n) ==
    [container : containerValues, item : SeqsUpTo(rawItems, n)]

\* what the probe's ranged GET and mm.parseBuffer can yield
ProbeResponses == {ProbeFailed, ProbeTags(24, 96000, "2001", "c", "l")}

\* the answers of the art extractor's ranged GET, parsed: a failure, a
\* container without picture, or the first picture's format
ArtFailed == [ok |-> FALSE]
ArtNoPicture == [ok |-> TRUE, picture |-> FALSE]
ArtPicture(format) == [ok |-> TRUE, picture |-> TRUE, format |-> format]

ArtResponses == {ArtFailed, ArtNoPicture, ArtPicture(<<"image", "jpeg">>)}

(***************************************************************************)
(* The browse handler                                                      *)
(***************************************************************************)
NoResponse == [kind |-> "none"]
ErrorResponse == [kind |-> "error"]
JsonResponse(data) == [kind |-> "json", body |-> JsonBody(data)]

NoListing == [container |-> NoContainer, item |-> << >>]

\* a callback that has not started, and one awaiting getAudioMetadata
WaitingTask == [st |-> "wait", meta |-> NoMeta, out |-> << >>]
NewTask == [st |-> "probe", meta |-> NoMeta, out |-> << >>]

\* the positions of rawItems.slice(i): a batch without its upper end
InBatchUnbounded(k, i) == i < k

\* the positions of the batch rawItems.slice(i, i + LIMIT)
InBatch(k, i) == i < k /\ k <= i + LIMIT

\* batch.map(async (item) => ...): the callbacks of the batch at i start
StartBatch(tasks, i) == [k \in DOMAIN tasks |-> IF InBatch(k, i) THEN NewTask ELSE tasks[k]]

Running(k) == k \in DOMAIN task /\ task[k].st \in {"probe", "head", "get"}

\* the state of a server that has just been started, whichever variant it is
Fresh ==
    /\ dbFile \in {[kind |-> "absent"], [kind |-> "blank"]}
    /\ albumArtDir = {}
    /\ pc = "idle"
    /\ includeMetadata = FALSE
    /\ cached = defaultData
    /\ didl = NoListing
    /\ itemsToScan = << >>
    /\ toRemove = << >>
    /\ batchStart = 0
    /\ task = << >>
    /\ items = << >>
    /\ response = NoResponse
    /\ mediaRequests = 0
    /\ dbWrites = 0
    /\ diskAtStart = dbFile
    /\ diskAfterRead = dbFile
    /\ replay = FALSE
    /\ artPc = "idle"
    /\ tried = << >>
    /\ frame = [kind |-> "none"]
    /\ buffer = << >>
    /\ albumArt = [kind |-> "null"]
    /\ artAnswer = "none"
    /\ fetchPc = "idle"
    /\ fileSize = 0
    /\ contentLength = [nan |-> TRUE, val |-> 0]
    /\ range = [kind |-> "none"]
    /\ probeTimeout = 0
    /\ artTimeout = 0
    /\ pc2 = "idle"
    /\ cached2 = defaultData
    /\ response2 = NoResponse
    /\ persisted2 = FALSE
    /\ overlap = FALSE
    /\ silent = FALSE

Init == variant = "fine" /\ Fresh

\* a step of the fine server, and one of the coarse server: a process runs
\* one of the two programs for good
Fine == variant = "fine" /\ UNCHANGED variant /\ UNCHANGED <<artVars, fetchVars, pass2Vars, silent>>
Coarse == variant = "coarse" /\ UNCHANGED variant /\ UNCHANGED <<artVars, fetchVars, pass2Vars, silent>>

\* either of the two servers
InitEither == variant \in {"fine", "coarse"} /\ Fresh

\* the handler runs to its first await: readDatabase(), then the browse
\* request is sent
Begin ==
    /\ LET r == readDatabase(dbFile)
       IN  /\ cached' = r.data
           /\ dbFile' = r.file
           /\ dbWrites' = r.wrote
           /\ diskAfterRead' = r.file
    /\ diskAtStart' = dbFile
    /\ pc' = "fetching"
    /\ response' = NoResponse
    /\ mediaRequests' = 0
    /\ itemsToScan' = << >>
    /\ toRemove' = << >>
    /\ batchStart' = 0
    /\ task' = << >>
    /\ items' = << >>
    /\ UNCHANGED albumArtDir

\* a request arrives once the pass before it has answered and none of its
\* callbacks is left running
StartPass ==
    /\ Fine
    /\ pc \in {"idle", "done", "failed"}
    /\ \A k \in DOMAIN task : ~Running(k)
    /\ \E flag \in BOOLEAN : includeMetadata' = flag
    /\ replay' = FALSE
    /\ didl' = NoListing
    /\ Begin

\* the same request again, and the media server has not changed: the pass
\* will be answered with the listing of the pass before it
RepeatPass ==
    /\ Fine
    /\ pc = "done"
    /\ replay' = TRUE
    /\ UNCHANGED <<includeMetadata, didl>>
    /\ Begin

\* the listings the browse request can be answered with
Answers(listings) == IF replay THEN {didl} ELSE listings

\* fetch rejects, or response.text() / parseXml throws: the handler rejects
FetchFail ==
    /\ Fine
    /\ pc = "fetching"
    /\ pc' = "failed"
    /\ response' = ErrorResponse
    /\ UNCHANGED <<dbFile, albumArtDir, includeMetadata, cached, didl, itemsToScan,
                   toRemove, batchStart, task, items, mediaRequests, dbWrites,
                   diskAtStart, diskAfterRead, replay>>

\* the batch rawItems.slice(i, i + LIMIT) of the items to enrich
BatchOf(its, i) == SubSeq(its, i + 1, IF i + LIMIT < Len(its) THEN i + LIMIT ELSE Len(its))

\* the requests a batch issues when its callbacks start: one probe per item
\* with a URL (fetch of an undefined URL throws before any request)
ProbesIssued(batch) == Cardinality({k \in 1..Len(batch) : batch[k].url # Undefined})

\* merge, writeDatabase(merged), res.json(merged)
Persist(listing, removed, newItems) ==
    LET merged == Merged(listing, cached, removed, newItems)
    IN  /\ dbFile' = writeDatabase(merged)
        /\ response' = JsonResponse(merged)
        /\ dbWrites' = dbWrites + 1
        /\ pc' = "done"

\* ShortCircuit that writes the snapshot back before it answers
ShortCircuitRewrites(listings) ==
    /\ Fine
    /\ pc = "fetching"
    /\ \E listing \in Answers(listings) :
        /\ ItemsToScan(listing.item, cached.items) = << >>
        /\ ToRemove(listing.item, cached.items) = << >>
        /\ didl' = listing
    /\ itemsToScan' = << >>
    /\ toRemove' = << >>
    /\ dbFile' = writeDatabase(cached)
    /\ dbWrites' = dbWrites + 1
    /\ response' = [kind |-> "json", body |-> cached]
    /\ pc' = "done"
    /\ UNCHANGED <<albumArtDir, includeMetadata, cached, batchStart, task,
                   items, mediaRequests, diskAtStart, diskAfterRead, replay>>

\* the listing arrives with nothing to scan and nothing to remove
ShortCircuit(listings) ==
    /\ Fine
    /\ pc = "fetching"
    /\ \E listing \in Answers(listings) :
        /\ ItemsToScan(listing.item, cached.items) = << >>
        /\ ToRemove(listing.item, cached.items) = << >>
        /\ didl' = listing
    /\ itemsToScan' = << >>
    /\ toRemove' = << >>
    /\ response' = [kind |-> "json", body |-> cached]
    /\ pc' = "done"
    /\ UNCHANGED <<dbFile, albumArtDir, includeMetadata, cached, batchStart, task,
                   items, mediaRequests, dbWrites, diskAtStart, diskAfterRead, replay>>

\* the listing arrives and transformDIDLData returns without enriching:
\* metadata is not asked for, or there are only removals
MergePlain(listings) ==
    /\ Fine
    /\ pc = "fetching"
    /\ \E listing \in Answers(listings) :
        LET scan == ItemsToScan(listing.item, cached.items)
            removed == ToRemove(listing.item, cached.items)
        IN  /\ scan # << >> \/ removed # << >>
            /\ ~includeMetadata \/ scan = << >>
            /\ didl' = listing
            /\ itemsToScan' = scan
            /\ toRemove' = removed
            /\ Persist(listing, removed, TransformItems(scan))
    /\ UNCHANGED <<albumArtDir, includeMetadata, cached, batchStart, task, items,
                   mediaRequests, diskAtStart, diskAfterRead, replay>>

\* the listing arrives and the first batch of transformDIDLData starts
StartEnrich(listings) ==
    /\ Fine
    /\ pc = "fetching"
    /\ includeMetadata
    /\ \E listing \in Answers(listings) :
        LET scan == ItemsToScan(listing.item, cached.items)
            batch == BatchOf(TransformItems(scan), 0)
        IN  /\ scan # << >>
            /\ didl' = listing
            /\ itemsToScan' = scan
            /\ toRemove' = ToRemove(listing.item, cached.items)
            /\ task' = StartBatch([k \in 1..Len(scan) |-> WaitingTask], 0)
            /\ mediaRequests' = mediaRequests + ProbesIssued(batch)
    /\ batchStart' = 0
    /\ items' = << >>
    /\ pc' = "enriching"
    /\ UNCHANGED <<dbFile, albumArtDir, includeMetadata, cached, response, dbWrites,
                   diskAtStart, diskAfterRead, replay>>

(***************************************************************************)
(* The batch callbacks of transformDIDLData                                *)
(***************************************************************************)
\* the item the k-th callback works on
TaskItem(k) == TransformItems(itemsToScan)[k]

\* callbacks keep running after Promise.all has rejected
TasksLive == pc \in {"enriching", "failed"}

\* return out
Settle(k, artUrl, meta) ==
    task' = [task EXCEPT ![k] = [st |-> "done", meta |-> NoMeta,
                                 out |-> BuildOut(TaskItem(k), artUrl, meta)]]

\* getAudioMetadata settles; checkAlbumArtCache; getAlbumArt sends its HEAD
ProbeDone(k, probeResponses) ==
    /\ Fine
    /\ TasksLive
    /\ k \in DOMAIN task
    /\ task[k].st = "probe"
    /\ \E resp \in (IF TaskItem(k).url = Undefined THEN {ProbeFailed} ELSE probeResponses) :
        LET item == TaskItem(k)
            meta == getAudioMetadata(resp)
            date == DateForFile(meta)
        IN  IF createFileNameThrows(item.title, date, item.artist)
            THEN \* the callback rejects, and with it Promise.all and the handler
                 /\ task' = [task EXCEPT ![k] = [st |-> "threw", meta |-> NoMeta,
                                                 out |-> << >>]]
                 /\ pc' = "failed"
                 /\ response' = IF pc = "enriching" THEN ErrorResponse ELSE response
                 /\ UNCHANGED mediaRequests
            ELSE LET artUrl == checkAlbumArtCache(item.title, date, item.artist, albumArtDir)
                 IN  /\ IF artUrl # Null
                        THEN Settle(k, artUrl, meta) /\ UNCHANGED mediaRequests
                        ELSE IF item.url = Undefined
                        THEN Settle(k, Null, meta) /\ UNCHANGED mediaRequests
                        ELSE /\ task' = [task EXCEPT ![k] = [st |-> "head", meta |-> meta,
                                                             out |-> << >>]]
                             /\ mediaRequests' = mediaRequests + 1
                     /\ UNCHANGED <<pc, response>>
    /\ UNCHANGED <<dbFile, albumArtDir, includeMetadata, cached, didl, itemsToScan,
                   toRemove, batchStart, items, dbWrites, diskAtStart, diskAfterRead,
                   replay>>

\* the HEAD of getAlbumArt settles; on success the ranged GET is sent
HeadDone(k) ==
    /\ Fine
    /\ TasksLive
    /\ k \in DOMAIN task
    /\ task[k].st = "head"
    /\ \E ok \in BOOLEAN :
        IF ok
        THEN /\ task' = [task EXCEPT ![k].st = "get"]
             /\ mediaRequests' = mediaRequests + 1
        ELSE /\ Settle(k, Null, task[k].meta)
             /\ UNCHANGED mediaRequests
    /\ UNCHANGED <<dbFile, albumArtDir, pc, includeMetadata, cached, didl, itemsToScan,
                   toRemove, batchStart, items, response, dbWrites, diskAtStart,
                   diskAfterRead, replay>>

\* the ranged GET of getAlbumArt settles; a picture is saved
GetDone(k, artResponses) ==
    /\ Fine
    /\ TasksLive
    /\ k \in DOMAIN task
    /\ task[k].st = "get"
    /\ \E resp \in artResponses :
        LET item == TaskItem(k)
            meta == task[k].meta
        IN  IF resp.ok /\ resp.picture
            THEN LET file == createFileName(item.title, DateForFile(meta), item.artist)
                     r == saveAlbumArtToFile(resp, file, albumArtDir)
                 IN  /\ albumArtDir' = r.dir
                     /\ Settle(k, r.saved, meta)
            ELSE /\ Settle(k, Null, meta)
                 /\ UNCHANGED albumArtDir
    /\ UNCHANGED <<dbFile, pc, includeMetadata, cached, didl, itemsToScan, toRemove,
                   batchStart, items, response, mediaRequests, dbWrites, diskAtStart,
                   diskAfterRead, replay>>

\* await Promise.all(...) resolves: every callback of the batch has returned
AllSettled == \A k \in DOMAIN task : InBatch(k, batchStart) => task[k].st = "done"

\* const batchResults
BatchResults ==
    [j \in 1..Len(BatchOf(task, batchStart)) |-> task[batchStart + j].out]

\* whether the loop of transformDIDLData has another batch after this one
MoreBatches == batchStart + LIMIT < Len(itemsToScan)

\* NextBatch that streams the items collected so far into the cache file
NextBatchStreaming ==
    /\ Fine
    /\ pc = "enriching"
    /\ AllSettled
    /\ MoreBatches
    /\ LET batch == BatchOf(TransformItems(itemsToScan), batchStart + LIMIT)
       IN  /\ task' = StartBatch(task, batchStart + LIMIT)
           /\ mediaRequests' = mediaRequests + ProbesIssued(batch)
    /\ items' = items \o BatchResults
    /\ batchStart' = batchStart + LIMIT
    /\ dbFile' = writeDatabase(Merged(didl, cached, toRemove, items'))
    /\ dbWrites' = dbWrites + 1
    /\ UNCHANGED <<albumArtDir, pc, includeMetadata, cached, didl, itemsToScan,
                   toRemove, response, diskAtStart, diskAfterRead, replay>>

\* Promise.all resolves and the loop starts the next batch
NextBatch ==
    /\ Fine
    /\ pc = "enriching"
    /\ AllSettled
    /\ MoreBatches
    /\ LET batch == BatchOf(TransformItems(itemsToScan), batchStart + LIMIT)
       IN  /\ task' = StartBatch(task, batchStart + LIMIT)
           /\ mediaRequests' = mediaRequests + ProbesIssued(batch)
    /\ items' = items \o BatchResults
    /\ batchStart' = batchStart + LIMIT
    /\ UNCHANGED <<dbFile, albumArtDir, pc, includeMetadata, cached, didl, itemsToScan,
                   toRemove, response, dbWrites, diskAtStart, diskAfterRead, replay>>

\* Promise.all resolves for the last batch: merge, persist, respond
MergeEnriched ==
    /\ Fine
    /\ pc = "enriching"
    /\ AllSettled
    /\ ~MoreBatches
    /\ items' = items \o BatchResults
    /\ Persist(didl, toRemove, items')
    /\ UNCHANGED <<albumArtDir, includeMetadata, cached, didl, itemsToScan, toRemove,
                   batchStart, task, mediaRequests, diskAtStart, diskAfterRead, replay>>

\* one step of the server: media answers are drawn from the given sets
NextOver(listings, probeResponses, artResponses) ==
    \/ StartPass
    \/ RepeatPass
    \/ FetchFail
    \/ ShortCircuit(listings)
    \/ MergePlain(listings)
    \/ StartEnrich(listings)
    \/ \E k \in DOMAIN task : ProbeDone(k, probeResponses)
    \/ \E k \in DOMAIN task : HeadDone(k)
    \/ \E k \in DOMAIN task : GetDone(k, artResponses)
    \/ MergeEnriched

\* the same, for listings longer than one batch
NextOverBatches(listings, probeResponses, artResponses) ==
    \/ NextOver(listings, probeResponses, artResponses)
    \/ NextBatch

(***************************************************************************)
(* The coarse variant: the browse handler of back-end/server.js            *)
(***************************************************************************)
\* the default readDatabase() returns when there is no database.json
coarseDefault == [containers |-> EmptyArray, items |-> << >>, lastUpdated |-> Null]

\* readDatabase(): nothing is written; JSON.parse throws on a blank file
readDatabaseCoarse(file) ==
    IF file.kind = "absent" THEN [threw |-> FALSE, data |-> coarseDefault]
    ELSE IF file.kind = "blank" THEN [threw |-> TRUE, data |-> coarseDefault]
    ELSE [threw |-> FALSE, data |-> [k \in DOMAIN file \ {"kind"} |-> file[k]]]

\* the document writeDatabase(data) leaves: {...data, lastUpdated}
writeDatabaseCoarse(data) ==
    [kind |-> "json",
     containers |-> data.containers,
     items |-> [k \in 1..Len(data.items) |-> JsonItem(data.items[k])],
     lastUpdated |-> Now]

\* hasChanges: the id lists differ in length, or a remote id is not cached
hasChanges(rawItems, cachedItems) ==
    \/ Len(rawItems) # Len(cachedItems)
    \/ \E k \in 1..Len(rawItems) : ~HasId(cachedItems, rawItems[k].id)

\* const containers: ensureArray(...).map(...) is always an array
CoarseContainers(listing) == [kind |-> "arr", val |-> ensureArray(listing.container)]

\* const rawItems of the coarse transformDIDLData
CoarseItem(i) ==
    [id |-> i.id,
     title |-> Or(i.dcTitle, "Unknown"),
     artist |-> Or(i.artist, "Unknown"),
     url |-> ResolvedUrl(i),
     genre |-> i.genre]

CoarseItems(rawItems) == [k \in 1..Len(rawItems) |-> CoarseItem(rawItems[k])]

\* albumArtUrl of the coarse out, written without `http://localhost:${PORT}`;
\* the URLs of the model hold no character encodeURIComponent escapes
CoarseArtUrl(url) == "/api/album-art/" \o ToStr(url)

\* the body res.json(newData) sends
CoarseBody(data) ==
    [containers |-> data.containers,
     items |-> [k \in 1..Len(data.items) |-> JsonItem(data.items[k])]]

\* the positions of the batch rawItems.slice(i, i + CONCURRENT_LIMIT)
CoarseInBatch(k, i) == i < k /\ k <= i + CONCURRENT_LIMIT

CoarseStartBatch(tasks, i) ==
    [k \in DOMAIN tasks |-> IF CoarseInBatch(k, i) THEN NewTask ELSE tasks[k]]

CoarseBatchOf(its, i) ==
    SubSeq(its, i + 1, IF i + CONCURRENT_LIMIT < Len(its) THEN i + CONCURRENT_LIMIT
                                                            ELSE Len(its))

\* the handler runs to its first await: readDatabase(), then the browse
\* request is sent; a throw of readDatabase goes to the error middleware
CoarseStartPass ==
    /\ Coarse
    /\ pc \in {"idle", "done", "failed"}
    /\ \A k \in DOMAIN task : ~Running(k)
    /\ \E flag \in BOOLEAN : includeMetadata' = flag
    /\ LET r == readDatabaseCoarse(dbFile)
       IN  /\ cached' = r.data
           /\ pc' = IF r.threw THEN "failed" ELSE "fetching"
           /\ response' = IF r.threw THEN ErrorResponse ELSE NoResponse
    /\ didl' = NoListing
    /\ itemsToScan' = << >>
    /\ toRemove' = << >>
    /\ batchStart' = 0
    /\ task' = << >>
    /\ items' = << >>
    /\ mediaRequests' = 0
    /\ dbWrites' = 0
    /\ diskAtStart' = dbFile
    /\ diskAfterRead' = dbFile
    /\ replay' = FALSE
    /\ UNCHANGED <<dbFile, albumArtDir>>

\* fetch rejects, or response.text() / parseXml throws
CoarseFetchFail ==
    /\ Coarse
    /\ pc = "fetching"
    /\ pc' = "failed"
    /\ response' = ErrorResponse
    /\ UNCHANGED <<dbFile, albumArtDir, includeMetadata, cached, didl, itemsToScan,
                   toRemove, batchStart, task, items, mediaRequests, dbWrites,
                   diskAtStart, diskAfterRead, replay>>

\* if (!hasChanges(didlResult, cachedData)) return res.json(cachedData)
CoarseUnchanged(listings) ==
    /\ Coarse
    /\ pc = "fetching"
    /\ \E listing \in listings :
        /\ ~hasChanges(listing.item, cached.items)
        /\ didl' = listing
    /\ response' = [kind |-> "json", body |-> cached]
    /\ pc' = "done"
    /\ UNCHANGED <<dbFile, albumArtDir, includeMetadata, cached, itemsToScan, toRemove,
                   batchStart, task, items, mediaRequests, dbWrites, diskAtStart,
                   diskAfterRead, replay>>

\* writeDatabase(newData); res.json(newData)
CoarsePersist(listing, newItems) ==
    LET newData == [containers |-> CoarseContainers(listing), items |-> newItems]
    IN  /\ dbFile' = writeDatabaseCoarse(newData)
        /\ response' = [kind |-> "json", body |-> CoarseBody(newData)]
        /\ dbWrites' = dbWrites + 1
        /\ pc' = "done"

\* the id set changed and transformDIDLData returns without a batch: metadata
\* is not asked for, or the listing has no item
CoarsePlain(listings) ==
    /\ Coarse
    /\ pc = "fetching"
    /\ \E listing \in listings :
        /\ hasChanges(listing.item, cached.items)
        /\ ~includeMetadata \/ listing.item = << >>
        /\ didl' = listing
        /\ itemsToScan' = listing.item
        /\ CoarsePersist(listing, CoarseItems(listing.item))
    /\ UNCHANGED <<albumArtDir, includeMetadata, cached, toRemove, batchStart, task,
                   items, mediaRequests, diskAtStart, diskAfterRead, replay>>

\* the id set changed and the first batch of every item of the listing starts
CoarseStartEnrich(listings) ==
    /\ Coarse
    /\ pc = "fetching"
    /\ includeMetadata
    /\ \E listing \in listings :
        /\ hasChanges(listing.item, cached.items)
        /\ listing.item # << >>
        /\ didl' = listing
        /\ itemsToScan' = listing.item
        /\ task' = CoarseStartBatch([k \in 1..Len(listing.item) |-> WaitingTask], 0)
        /\ mediaRequests' = mediaRequests
                               + ProbesIssued(CoarseBatchOf(CoarseItems(listing.item), 0))
    /\ batchStart' = 0
    /\ items' = << >>
    /\ pc' = "enriching"
    /\ UNCHANGED <<dbFile, albumArtDir, includeMetadata, cached, toRemove, response,
                   dbWrites, diskAtStart, diskAfterRead, replay>>

\* getAudioMetadata settles (it catches every failure) and the callback
\* returns its out
CoarseProbeDone(k, probeResponses) ==
    /\ Coarse
    /\ pc = "enriching"
    /\ k \in DOMAIN task
    /\ task[k].st = "probe"
    /\ LET item == CoarseItems(itemsToScan)[k]
       IN  \E resp \in (IF item.url = Undefined THEN {ProbeFailed} ELSE probeResponses) :
               task' = [task EXCEPT ![k] =
                           [st |-> "done", meta |-> NoMeta,
                            out |-> BuildOut(item, CoarseArtUrl(item.url),
                                             getAudioMetadata(resp))]]
    /\ UNCHANGED <<dbFile, albumArtDir, pc, includeMetadata, cached, didl, itemsToScan,
                   toRemove, batchStart, items, response, mediaRequests, dbWrites,
                   diskAtStart, diskAfterRead, replay>>

\* await Promise.all(...) resolves: every callback of the batch has returned
CoarseAllSettled ==
    \A k \in DOMAIN task : CoarseInBatch(k, batchStart) => task[k].st = "done"

CoarseBatchResults ==
    [j \in 1..Len(CoarseBatchOf(task, batchStart)) |-> task[batchStart + j].out]

CoarseMoreBatches == batchStart + CONCURRENT_LIMIT < Len(itemsToScan)

\* items.push(...batchResults) and the loop starts the next batch
CoarseNextBatch ==
    /\ Coarse
    /\ pc = "enriching"
    /\ CoarseAllSettled
    /\ CoarseMoreBatches
    /\ task' = CoarseStartBatch(task, batchStart + CONCURRENT_LIMIT)
    /\ mediaRequests' = mediaRequests
                           + ProbesIssued(CoarseBatchOf(CoarseItems(itemsToScan),
                                                        batchStart + CONCURRENT_LIMIT))
    /\ items' = items \o CoarseBatchResults
    /\ batchStart' = batchStart + CONCURRENT_LIMIT
    /\ UNCHANGED <<dbFile, albumArtDir, pc, includeMetadata, cached, didl, itemsToScan,
                   toRemove, response, dbWrites, diskAtStart, diskAfterRead, replay>>

\* the last batch has settled: writeDatabase(newData), res.json(newData)
CoarseFinish ==
    /\ Coarse
    /\ pc = "enriching"
    /\ CoarseAllSettled
    /\ ~CoarseMoreBatches
    /\ items' = items \o CoarseBatchResults
    /\ CoarsePersist(didl, items')
    /\ UNCHANGED <<albumArtDir, includeMetadata, cached, didl, itemsToScan, toRemove,
                   batchStart, task, mediaRequests, diskAtStart, diskAfterRead, replay>>

\* one step of the coarse server
NextCoarse(listings, probeResponses) ==
    \/ CoarseStartPass
    \/ CoarseFetchFail
    \/ CoarseUnchanged(listings)
    \/ CoarsePlain(listings)
    \/ CoarseStartEnrich(listings)
    \/ \E k \in DOMAIN task : CoarseProbeDone(k, probeResponses)
    \/ CoarseNextBatch
    \/ CoarseFinish

(***************************************************************************)
(* Spec: passes of at most one batch, every answer of the media requests   *)
(***************************************************************************)
\* item "1" in its base form, without a title and at another URL, and item "2"
RawItems ==
    { RawItem("1", "A", <<"u1">>, "g1"), RawItem("1", Undefined, <<"u1">>, "g1"),
      RawItem("1", "A", <<"u2">>, "g1"), RawItem("2", "A", <<"u1">>, "g1") }

Listings == ListingsOf({NoContainer}, RawItems, LIMIT)

Next == NextOver(Listings, ProbeResponses, ArtResponses)

Spec == Init /\ [][Next]_vars

(***************************************************************************)
(* SpecDiff: every change of an item between two listings; the probe       *)
(* answers with tags and no picture is found                               *)
(***************************************************************************)
RawItemsDiff ==
    { RawItem("1", t, <<"u1">>, "g1") : t \in {"A", "B", Undefined} }
    \cup { RawItem("1", "A", r, "g1") : r \in {<<"u2">>, <<"u1", "u2">>, << >>} }
    \cup { RawItem("1", "A", <<"u1">>, "g2"), RawItem("2", "A", <<"u1">>, "g1") }

ListingsDiff == ListingsOf({NoContainer}, RawItemsDiff, LIMIT)

NextDiff ==
    NextOver(ListingsDiff, {ProbeTags(24, 96000, "2001", "c", "l")}, {ArtFailed})

SpecDiff == Init /\ [][NextDiff]_vars

(***************************************************************************)
(* The trailing scan of getAlbumArtForDSD (back-end/server.js)             *)
(***************************************************************************)
\* a Buffer is a sequence of bytes, positions are 0-based as in the source
ID3 == <<73, 68, 51>>
APIC == <<65, 80, 73, 67>>

\* buf has the bytes pat at position i
MatchAt(buf, pat, i) ==
    /\ i + Len(pat) <= Len(buf)
    /\ \A j \in 1..Len(pat) : buf[i + j] = pat[j]

\* buffer.indexOf(pat, from): the first position at or after from, or -1
IndexOf(buf, pat, from) ==
    IF \E i \in from..(Len(buf) - 1) : MatchAt(buf, pat, i)
    THEN CHOOSE i \in from..(Len(buf) - 1) :
             /\ MatchAt(buf, pat, i)
             /\ \A j \in from..(i - 1) : ~MatchAt(buf, pat, j)
    ELSE -1

\* buffer.readUInt32BE(offset) throws a RangeError unless offset + 4 <= length
ReadUInt32Throws(buf, offset) == offset + 4 > Len(buf)

readUInt32BE(buf, offset) ==
    ((buf[offset + 1] * 256 + buf[offset + 2]) * 256 + buf[offset + 3]) * 256
        + buf[offset + 4]

\* the clamping buffer.slice and buffer.toString apply to an end position
ClampEnd(buf, end) == IF end > Len(buf) THEN Len(buf) ELSE end

\* buffer.slice(start, end) for start >= 0: clamped, empty when end <= start
Slice(buf, start, end) ==
    LET e == IF end < 0 THEN (IF Len(buf) + end < 0 THEN 0 ELSE Len(buf) + end)
             ELSE ClampEnd(buf, end)
    IN  IF start >= e THEN << >> ELSE SubSeq(buf, start + 1, e)

\* buffer.toString("utf8", start, end) as the bytes of the string: empty
\* when start is past the buffer or end <= start (a negative end included)
ToStringBytes(buf, start, end) ==
    IF start >= Len(buf) THEN << >>
    ELSE LET e == ClampEnd(buf, end)
         IN  IF e <= start THEN << >> ELSE SubSeq(buf, start + 1, e)

\* "image/jpeg", the format of a picture with an empty MIME string
DefaultFormat == <<105, 47, 106>>

NoPicture == [kind |-> "null"]

\* the scan of getAlbumArtForDSD over the trailing buffer; a RangeError of
\* readUInt32BE is caught and gives null
ScanBuffer(buf) ==
    LET id3Index == IndexOf(buf, ID3, 0)
    IN  IF id3Index = -1 THEN NoPicture
        ELSE LET apicIndex == IndexOf(buf, APIC, id3Index)
             IN  IF apicIndex = -1 THEN NoPicture
                 ELSE IF ReadUInt32Throws(buf, apicIndex + 4) THEN NoPicture
                 ELSE LET size == readUInt32BE(buf, apicIndex + 4)
                          mimeStart == apicIndex + 4 + 6 + 1
                          mimeEnd == IndexOf(buf, <<0>>, mimeStart)
                          mimeType == ToStringBytes(buf, mimeStart, mimeEnd)
                          descStart == mimeEnd + 1 + 1
                          descEnd == IndexOf(buf, <<0>>, descStart)
                          offset == descEnd + 1
                      IN  [kind |-> "picture",
                           format |-> IF mimeType = << >> THEN DefaultFormat
                                                          ELSE mimeType,
                           data |-> Slice(buf, offset, apicIndex + size)]

(***************************************************************************)
(* The album-art handler of back-end/server.js                             *)
(***************************************************************************)
\* the longest picture payload of a generated frame
MaxPayload == 12

\* picture bytes: none of them is NUL or a byte of the markers
Payload(n) == [k \in 1..n |-> 100 + k]

\* the length of an APIC frame's content: encoding byte, MIME type and its
\* NUL, picture type byte, description and its NUL, picture
ApicContentLen(f) == 1 + Len(f.mime) + 1 + 1 + Len(f.desc) + 1 + Len(f.payload)

\* the bytes of a file's end that holds an ID3v2.3 tag with one APIC frame:
\* frame id, 4-byte size, 2 flag bytes, then the content
FrameBytes(f) ==
    f.junk \o ID3 \o f.gap \o APIC \o <<0, 0, 0, f.size>> \o <<0, 0>> \o <<3>>
        \o f.mime \o <<0>> \o <<3>> \o f.desc \o <<0>> \o f.payload \o f.rest

\* 0-based offset of the first picture byte in FrameBytes(f)
PayloadStart(f) ==
    Len(f.junk) + 3 + Len(f.gap) + 4 + 4 + 2 + 1 + Len(f.mime) + 1 + 1 + Len(f.desc) + 1

\* a frame declares its true content length, or a wrong one
SizesOf(f) == {ApicContentLen(f), ApicContentLen(f) + 10, 0, 250}

FramesUpTo(maxPayload) ==
    UNION { { [f EXCEPT !.size = s] : s \in SizesOf(f) } :
            f \in [junk : {<< >>, <<9>>}, gap : {<< >>, <<9, 9>>}, size : {0},
                   mime : {<< >>, <<105>>}, desc : {<< >>, <<100>>},
                   payload : {Payload(n) : n \in 0..maxPayload},
                   rest : {<< >>, <<7>>}] }

\* what the ranged GET for the file's end delivers: the bytes of a frame,
\* whole or cut short
TrailerBytes(t) == SubSeq(FrameBytes(t.parts), 1, t.cut)

\* app.get("/api/album-art/:fileUrl"): the ETag check, then the start of
\* getAlbumArtUnified with getAlbumArt
ArtRequest ==
    /\ variant = "coarse" /\ UNCHANGED <<browseVars, fetchVars, pass2Vars, silent>>
    /\ artPc \in {"idle", "answered"}
    /\ \E ifNoneMatch \in BOOLEAN :
          /\ artPc' = IF ifNoneMatch THEN "answered" ELSE "prefix"
          /\ tried' = IF ifNoneMatch THEN << >> ELSE <<"prefix">>
          /\ artAnswer' = IF ifNoneMatch THEN "304" ELSE "none"
    /\ frame' = [kind |-> "none"]
    /\ buffer' = << >>
    /\ albumArt' = NoPicture

\* getAlbumArt settles: a picture is sent; without one getAlbumArtUnified
\* goes on to getAlbumArtForDSD
PrefixDone(arts) ==
    /\ variant = "coarse" /\ UNCHANGED <<browseVars, fetchVars, pass2Vars, silent>>
    /\ artPc = "prefix"
    /\ \E a \in arts :
          IF a.ok /\ a.picture
          THEN /\ albumArt' = [kind |-> "picture", format |-> a.format, data |-> <<255>>]
               /\ artAnswer' = "picture"
               /\ artPc' = "answered"
               /\ UNCHANGED tried
          ELSE /\ artPc' = "trailing"
               /\ tried' = Append(tried, "trailing")
               /\ UNCHANGED <<albumArt, artAnswer>>
    /\ UNCHANGED <<frame, buffer>>

\* getAlbumArtForDSD: the HEAD or the ranged GET fails; null, and 404
TrailingFail ==
    /\ variant = "coarse" /\ UNCHANGED <<browseVars, fetchVars, pass2Vars, silent>>
    /\ artPc = "trailing"
    /\ artPc' = "answered"
    /\ albumArt' = NoPicture
    /\ artAnswer' = "404"
    /\ UNCHANGED <<tried, frame, buffer>>

\* getAlbumArtForDSD: the ranged GET delivers the file's end and the scan
\* runs over it; the handler sends the picture, or 404 for null
TrailingDone(frames) ==
    /\ variant = "coarse" /\ UNCHANGED <<browseVars, fetchVars, pass2Vars, silent>>
    /\ artPc = "trailing"
    /\ \E f \in frames :
          \E c \in 0..Len(FrameBytes(f)) :
             LET t == [kind |-> "frame", parts |-> f, cut |-> c]
             IN  /\ frame' = t
                 /\ buffer' = TrailerBytes(t)
                 /\ albumArt' = ScanBuffer(TrailerBytes(t))
                 /\ artAnswer' = IF ScanBuffer(TrailerBytes(t)).kind = "null"
                                 THEN "404" ELSE "picture"
    /\ artPc' = "answered"
    /\ UNCHANGED tried

(***************************************************************************)
(* SpecScan: requests for album art against files whose end holds an APIC  *)
(* frame, well-formed or not, whole or cut short                           *)
(***************************************************************************)
Frames == FramesUpTo(MaxPayload)

PrefixOutcomes == {ArtFailed, ArtNoPicture, ArtPicture(DefaultFormat)}

InitScan == variant = "coarse" /\ Fresh

NextScan ==
    \/ ArtRequest
    \/ PrefixDone(PrefixOutcomes)
    \/ TrailingFail
    \/ TrailingDone(Frames)

SpecScan == InitScan /\ [][NextScan]_vars

(***************************************************************************)
(* SpecArt: the server of back-end/server.js browsing a folder of items    *)
(* that share one media file, and answering requests for that file's art   *)
(***************************************************************************)
RawItemsArt ==
    { RawItem("1", "A", <<"u1">>, "g1"), RawItem("2", "A", <<"u1">>, "g1") }

ListingsArt == ListingsOf({NoContainer}, RawItemsArt, CONCURRENT_LIMIT + 1)

\* the frames without bytes around them and without a picture
FramesArt ==
    { f \in FramesUpTo(0) : f.junk = << >> /\ f.gap = << >> /\ f.rest = << >> }

NextArt ==
    \/ NextCoarse(ListingsArt, ProbeResponses)
    \/ ArtRequest
    \/ PrefixDone(PrefixOutcomes)
    \/ TrailingFail
    \/ TrailingDone(FramesArt)

SpecArt == InitScan /\ [][NextArt]_vars

(***************************************************************************)
(* SpecCache: a file served under two URLs in turn, with pictures of two   *)
(* MIME types                                                              *)
(***************************************************************************)
RawItemsCache ==
    { RawItem("1", "A", <<"u1">>, "g1"), RawItem("1", "A", <<"u2">>, "g1") }

ListingsCache == ListingsOf({NoContainer}, RawItemsCache, LIMIT)

\* picture.format of music-metadata is the picture's MIME type
ArtResponsesCache ==
    {ArtFailed, ArtPicture(<<"image", "jpeg">>), ArtPicture(<<"image", "webp">>)}

NextCache ==
    NextOver(ListingsCache, {ProbeTags(24, 96000, "2001", "c", "l")}, ArtResponsesCache)

SpecCache == Init /\ [][NextCache]_vars

(***************************************************************************)
(* SpecOrder: two tracks of one title at two URLs, in listings longer than *)
(* a batch                                                                 *)
(***************************************************************************)
RawItemsOrder ==
    { RawItem("1", "A", <<"u1">>, "g1"), RawItem("2", "A", <<"u2">>, "g1") }

ListingsOrder == ListingsOf({NoContainer}, RawItemsOrder, MaxLen)

NextOrder ==
    NextOverBatches(ListingsOrder, {ProbeFailed},
                    {ArtFailed, ArtPicture(<<"image", "jpeg">>)})

SpecOrder == Init /\ [][NextOrder]_vars

(***************************************************************************)
(* The media requests of one item: getAudioMetadata, then getAlbumArt      *)
(***************************************************************************)
\* how far the generated file lengths lie from 0 and from the caps
MaxDelta == 20

\* const maxBytes of getAlbumArt in server.js, and the cap written out twice
\* in getAlbumArt of vite.config.js
maxBytes == 9500000
maxBytesVite == 14505936

\* timeout = 5000 of fetchWithTimeout's parameter list
DefaultTimeout == 5000

\* fetchWithTimeout(url, options = {}, timeout = 5000): the delay of its abort
\* timer.  rest holds the arguments after options; options is spread into
\* fetch's init and its timeout key is read by nobody
fetchWithTimeout(options, rest) == IF Len(rest) = 0 THEN DefaultTimeout ELSE rest[1]

Min(a, b) == IF a < b THEN a ELSE b

\* const endByte of server.js; NaN has thrown before
EndByteServer(len) == IF len.val < maxBytes THEN len.val - 1 ELSE maxBytes

\* const end of vite.config.js
EndByteVite(len) == IF len.nan THEN maxBytesVite ELSE Min(len.val - 1, maxBytesVite)

\* the file lengths: near 0 and around a cap
SizesAround(cap, delta) == (0..delta) \cup ((cap - delta)..(cap + delta))

\* what parseInt makes of the HEAD's content-length header: the file's length,
\* or NaN when the media server sends no such header
ParsedLengths(size) == {[nan |-> FALSE, val |-> size], [nan |-> TRUE, val |-> 0]}

\* vite.config.js, getAudioMetadata: the ranged GET for the tags is sent
ViteProbe(sizes) ==
    /\ variant = "fine" /\ UNCHANGED <<browseVars, artVars, pass2Vars, silent>>
    /\ fetchPc = "idle"
    /\ \E size \in sizes : fileSize' = size
    /\ probeTimeout' = fetchWithTimeout([headers |-> "Range"], <<5000>>)
    /\ fetchPc' = "probe"
    /\ range' = [kind |-> "none"]
    /\ UNCHANGED <<contentLength, artTimeout>>

\* vite.config.js, getAlbumArt: the HEAD is answered; a status that is not ok
\* throws; otherwise the ranged GET is sent
ViteHead ==
    /\ variant = "fine" /\ UNCHANGED <<browseVars, artVars, pass2Vars, silent>>
    /\ fetchPc = "probe"
    /\ \E ok \in BOOLEAN, len \in ParsedLengths(fileSize) :
          IF ~ok
          THEN fetchPc' = "idle" /\ UNCHANGED <<contentLength, range, artTimeout>>
          ELSE /\ contentLength' = len
               /\ range' = [kind |-> "bytes", first |-> 0, last |-> EndByteVite(len)]
               /\ artTimeout' = fetchWithTimeout([headers |-> "Range"], <<1000>>)
               /\ fetchPc' = "get"
    /\ UNCHANGED <<fileSize, probeTimeout>>

\* server.js, getAudioMetadata: the ranged GET for the tags is sent
ServerProbe(sizes) ==
    /\ variant = "coarse" /\ UNCHANGED <<browseVars, artVars, pass2Vars, silent>>
    /\ fetchPc = "idle"
    /\ \E size \in sizes : fileSize' = size
    /\ probeTimeout' = fetchWithTimeout([headers |-> "Range", timeout |-> 5000], << >>)
    /\ fetchPc' = "probe"
    /\ range' = [kind |-> "none"]
    /\ UNCHANGED <<contentLength, artTimeout>>

\* server.js, getAlbumArt: the HEAD is answered; a status that is not ok and a
\* content-length that is NaN throw; otherwise the ranged GET is sent
ServerHead ==
    /\ variant = "coarse" /\ UNCHANGED <<browseVars, artVars, pass2Vars, silent>>
    /\ fetchPc = "probe"
    /\ \E ok \in BOOLEAN, len \in ParsedLengths(fileSize) :
          IF ~ok
          THEN fetchPc' = "idle" /\ UNCHANGED <<contentLength, range, artTimeout>>
          ELSE IF len.nan
          THEN fetchPc' = "idle" /\ contentLength' = len /\ UNCHANGED <<range, artTimeout>>
          ELSE /\ contentLength' = len
               /\ range' = [kind |-> "bytes", first |-> 0, last |-> EndByteServer(len)]
               /\ artTimeout' = fetchWithTimeout([headers |-> "Range", timeout |-> 10000],
                                                 << >>)
               /\ fetchPc' = "get"
    /\ UNCHANGED <<fileSize, probeTimeout>>

\* getAlbumArt's ranged GET settles, in either file
RangedGetDone ==
    /\ UNCHANGED <<browseVars, artVars, pass2Vars, silent>>
    /\ fetchPc = "get"
    /\ fetchPc' = "idle"
    /\ UNCHANGED <<fileSize, contentLength, range, probeTimeout, artTimeout>>

(***************************************************************************)
(* SpecFetch: the media requests for files of lengths near 0 and around    *)
(* the caps, in either server                                              *)
(***************************************************************************)
Sizes == SizesAround(maxBytes, MaxDelta) \cup SizesAround(maxBytesVite, MaxDelta)

NextFetch ==
    \/ ViteProbe(Sizes)
    \/ ViteHead
    \/ ServerProbe(Sizes)
    \/ ServerHead
    \/ RangedGetDone

SpecFetch == InitEither /\ [][NextFetch]_vars

(***************************************************************************)
(* SpecBatch: listings longer than a batch, one item with a numeric title  *)
(***************************************************************************)
RawItemsBatch ==
    { RawItem("1", Num7, <<"u1">>, "g1"), RawItem("2", "A", <<"u1">>, "g1") }

ListingsBatch == ListingsOf({NoContainer}, RawItemsBatch, MaxLen)

NextBatches ==
    \/ NextCoarse(ListingsBatch, ProbeResponses)
    \/ NextOverBatches(ListingsBatch, ProbeResponses, {ArtFailed, ArtPicture(<<"image", "jpeg">>)})

SpecBatch == InitEither /\ [][NextBatches]_vars

(***************************************************************************)
(* SpecContainers: listings with no, one and two containers                *)
(***************************************************************************)
ContainerValues ==
    {NoContainer, OneContainer(Container("c1")),
     ManyContainers(<<Container("c1"), Container("c2")>>)}

RawItemsContainers ==
    { RawItem("1", "A", <<"u1">>, "g1"), RawItem("2", "A", <<"u1">>, "g1") }

ListingsContainers == ListingsOf(ContainerValues, RawItemsContainers, LIMIT)

NextContainers ==
    NextOver(ListingsContainers, {ProbeTags(24, 96000, "2001", "c", "l")}, {ArtFailed})

SpecContainers == Init /\ [][NextContainers]_vars

(***************************************************************************)
(* SpecOverlap: a second /api/browse request arrives while the first is    *)
(* awaiting the media server. Each invocation of the handler has its own   *)
(* cachedData and merged; database.json is the one thing they share.       *)
(***************************************************************************)
\* what the first invocation holds besides the cache file
firstVars == <<variant, albumArtDir, pc, includeMetadata, cached, didl, itemsToScan,
               toRemove, batchStart, task, items, response, mediaRequests, dbWrites,
               diskAtStart, diskAfterRead, replay>>

\* a step of the second invocation
Second == variant = "fine" /\ UNCHANGED <<firstVars, artVars, fetchVars, silent>>

\* the second request arrives and runs to its first await: readDatabase(),
\* then the browse request is sent
Start2 ==
    /\ Second
    /\ pc2 = "idle"
    /\ LET r == readDatabase(dbFile)
       IN  /\ cached2' = r.data
           /\ dbFile' = r.file
    /\ pc2' = "fetching"
    /\ response2' = NoResponse
    /\ persisted2' = FALSE
    /\ overlap' = (pc \in {"fetching", "enriching"})

\* fetch rejects, or response.text() / parseXml throws
FetchFail2 ==
    /\ Second
    /\ pc2 = "fetching"
    /\ pc2' = "failed"
    /\ response2' = ErrorResponse
    /\ UNCHANGED <<dbFile, cached2, persisted2, overlap>>

\* the listing arrives with nothing to scan and nothing to remove
ShortCircuit2(listings) ==
    /\ Second
    /\ pc2 = "fetching"
    /\ \E listing \in listings :
        /\ ItemsToScan(listing.item, cached2.items) = << >>
        /\ ToRemove(listing.item, cached2.items) = << >>
    /\ response2' = [kind |-> "json", body |-> cached2]
    /\ pc2' = "done"
    /\ UNCHANGED <<dbFile, cached2, persisted2, overlap>>

\* the listing arrives, metadata is not asked for: merge, writeDatabase(merged),
\* res.json(merged), all in one turn of the event loop
MergePlain2(listings) ==
    /\ Second
    /\ pc2 = "fetching"
    /\ \E listing \in listings :
        LET scan == ItemsToScan(listing.item, cached2.items)
            removed == ToRemove(listing.item, cached2.items)
            merged == Merged(listing, cached2, removed, TransformItems(scan))
        IN  /\ scan # << >> \/ removed # << >>
            /\ dbFile' = writeDatabase(merged)
            /\ response2' = JsonResponse(merged)
    /\ persisted2' = TRUE
    /\ pc2' = "done"
    /\ UNCHANGED <<cached2, overlap>>

\* the answer of the second invocation has been delivered
Forget2 ==
    /\ Second
    /\ pc2 \in {"done", "failed"}
    /\ pc2' = "idle"
    /\ response2' = NoResponse
    /\ persisted2' = FALSE
    /\ overlap' = FALSE
    /\ UNCHANGED <<dbFile, cached2>>

RawItemsOverlap ==
    { RawItem("1", "A", <<"u1">>, "g1"), RawItem("2", "B", <<"u2">>, "g1") }

ListingsOverlap == ListingsOf(ContainerValues, RawItemsOverlap, 1)

\* the first invocation takes its next request once the answer of the second
\* has been delivered
NextOverlap ==
    \/ (pc2 \notin {"done", "failed"} /\ StartPass)
    \/ (pc2 \notin {"done", "failed"} /\ RepeatPass)
    \/ FetchFail
    \/ ShortCircuit(ListingsOverlap)
    \/ MergePlain(ListingsOverlap)
    \/ StartEnrich(ListingsOverlap)
    \/ \E k \in DOMAIN task : ProbeDone(k, {ProbeFailed})
    \/ \E k \in DOMAIN task : HeadDone(k)
    \/ \E k \in DOMAIN task : GetDone(k, {ArtFailed})
    \/ MergeEnriched
    \/ Start2
    \/ FetchFail2
    \/ ShortCircuit2(ListingsOverlap)
    \/ MergePlain2(ListingsOverlap)
    \/ Forget2

SpecOverlap == Init /\ [][NextOverlap]_vars

(***************************************************************************)
(* SpecLive: the media server may stop answering. A request sent through   *)
(* fetchWithTimeout is aborted by its timer and its caller's catch yields  *)
(* null; the browse request is sent with fetch itself. In vite.config.js   *)
(* fetch is the runtime's, which gives up on a response that never starts; *)
(* in server.js it is node-fetch, which waits for as long as it takes.     *)
(***************************************************************************)
\* the media server stops answering, for good
ServerStops ==
    /\ ~silent
    /\ silent' = TRUE
    /\ UNCHANGED <<browseVars, artVars, fetchVars, pass2Vars>>

RawItemsLive == { RawItem("1", "A", <<"u1">>, "g1") }

ListingsLive == ListingsOf({NoContainer}, RawItemsLive, MaxLen)

\* what a probe can settle with: only the abort once the server is silent
ProbesLive == IF silent THEN {ProbeFailed} ELSE ProbeResponses

\* what the ranged GET can settle with
ArtsLive == IF silent THEN {ArtFailed} ELSE {ArtFailed, ArtPicture(<<"image", "jpeg">>)}

\* a request arrives
Arrives == StartPass \/ RepeatPass \/ CoarseStartPass

\* the browse request of vite.config.js settles
BrowseSettles ==
    \/ FetchFail
    \/ (~silent /\ ShortCircuit(ListingsLive))
    \/ (~silent /\ MergePlain(ListingsLive))
    \/ (~silent /\ StartEnrich(ListingsLive))

\* the browse request of server.js settles: there is nothing to settle it
\* once the server is silent
CoarseBrowseSettles ==
    \/ (~silent /\ CoarseFetchFail)
    \/ (~silent /\ CoarseUnchanged(ListingsLive))
    \/ (~silent /\ CoarsePlain(ListingsLive))
    \/ (~silent /\ CoarseStartEnrich(ListingsLive))

\* a request of an item settles, by an answer or by its timer, or a batch ends
ItemSettles ==
    \/ \E k \in DOMAIN task : ProbeDone(k, ProbesLive)
    \/ \E k \in DOMAIN task : (HeadDone(k) /\ (silent => task'[k].st # "get"))
    \/ \E k \in DOMAIN task : GetDone(k, ArtsLive)
    \/ NextBatch
    \/ MergeEnriched
    \/ \E k \in DOMAIN task : CoarseProbeDone(k, ProbesLive)
    \/ CoarseNextBatch
    \/ CoarseFinish

NextLive == Arrives \/ ServerStops \/ BrowseSettles \/ CoarseBrowseSettles \/ ItemSettles

\* requests settle when they can, and the event loop runs what is ready
FairLive ==
    /\ WF_vars(BrowseSettles)
    /\ WF_vars(CoarseBrowseSettles)
    /\ WF_vars(ItemSettles)

SpecLive == InitEither /\ [][NextLive]_vars /\ FairLive

(***************************************************************************)
(* Properties                                                              *)
(***************************************************************************)
Ids(its) == {its[k].id : k \in 1..Len(its)}

\* the pass has answered with a snapshot
Returned == pc = "done" /\ response.kind = "json"

\* the ids the remote listing no longer has
DroppedIds == Ids(cached.items) \ Ids(didl.item)

\* C1: removal correctness.  When a pass has answered, no id that was cached
\* and is absent from the remote listing is left in the returned items or in
\* the cache file; and when exactly one cached id was dropped and the listing
\* holds no id the cache did not have, totalItems is one less than it was,
\* in the answer and in the file.
C1_RemovalCorrect ==
    Returned =>
        /\ DroppedIds \cap Ids(response.body.items) = {}
        /\ DroppedIds \cap Ids(dbFile.items) = {}
        /\ (Cardinality(DroppedIds) = 1 /\ Ids(didl.item) \subseteq Ids(cached.items))
              => /\ response.body.metadata.totalItems = cached.metadata.totalItems - 1
                 /\ dbFile.metadata.totalItems = cached.metadata.totalItems - 1

\* a pass dropped item "2" alone out of a cache of two and rescanned nothing
C1_Witness ==
    /\ Returned
    /\ Ids(cached.items) = {"1", "2"}
    /\ DroppedIds = {"2"}
    /\ itemsToScan = << >>
    /\ Ids(dbFile.items) = {"1"}
    /\ dbFile.metadata.totalItems = 1

\* the diff has been computed for the listing in didl
Diffed == pc \in {"enriching", "done"}

InToScan(r) == \E k \in 1..Len(itemsToScan) : itemsToScan[k] = r

\* C2: fingerprint sensitivity.  A remote item whose id is cached is in
\* itemsToScan when its title or its first resource's URL differs from the
\* cached record's title or url, and is not when both are the same, whatever
\* its genre and its further resources are.
C2_FingerprintSensitive ==
    Diffed =>
        \A k \in 1..Len(didl.item) :
            LET r == didl.item[k]
            IN  HasId(cached.items, r.id) =>
                    LET c == MapGet(cached.items, r.id)
                    IN  /\ (r.dcTitle # Get(c, "title") \/ ResolvedUrl(r) # Get(c, "url"))
                              => InToScan(r)
                        /\ (r.dcTitle = Get(c, "title") /\ ResolvedUrl(r) = Get(c, "url"))
                              => ~InToScan(r)

\* one listing holds an item whose URL changed, which is scanned, and an item
\* of which only the genre changed, which is not
C2_Witness ==
    /\ Diffed
    /\ \E k \in 1..Len(didl.item) :
          LET r == didl.item[k]
          IN  /\ HasId(cached.items, r.id)
              /\ r.dcTitle = Get(MapGet(cached.items, r.id), "title")
              /\ ResolvedUrl(r) = Get(MapGet(cached.items, r.id), "url")
              /\ r.genre # Get(MapGet(cached.items, r.id), "genre")
              /\ ~InToScan(r)
    /\ \E k \in 1..Len(didl.item) :
          LET r == didl.item[k]
          IN  /\ HasId(cached.items, r.id)
              /\ r.dcTitle = Get(MapGet(cached.items, r.id), "title")
              /\ ResolvedUrl(r) # Get(MapGet(cached.items, r.id), "url")
              /\ InToScan(r)

\* the pass took the short-circuit return: nothing to scan, nothing to remove
ShortCircuited == pc = "done" /\ itemsToScan = << >> /\ toRemove = << >>

\* C3 as claimed: on the short-circuit path the pass issues no media request,
\* does not write the cache file and returns the snapshot as it was read.
C3_ShortCircuitNoWrite ==
    ShortCircuited =>
        /\ mediaRequests = 0
        /\ dbWrites = 0
        /\ dbFile = diskAtStart
        /\ response = [kind |-> "json", body |-> cached]

\* C3 as amended: on the short-circuit path the pass issues no media request
\* and returns the snapshot as it was read; the cache file is the one
\* readDatabase left, whose one possible write is the initialisation of an
\* absent or blank file to the empty snapshot.
C3_ShortCircuitNoWriteAfterRead ==
    ShortCircuited =>
        /\ mediaRequests = 0
        /\ response = [kind |-> "json", body |-> cached]
        /\ dbFile = diskAfterRead
        /\ IF diskAtStart.kind = "json"
           THEN dbWrites = 0 /\ dbFile = diskAtStart
           ELSE dbWrites = 1 /\ dbFile = writeDatabase(defaultData)

\* a pass that asked for metadata short-circuits on a cache of two items
C3_Witness ==
    /\ ShortCircuited
    /\ includeMetadata
    /\ Len(didl.item) = 2
    /\ Len(cached.items) = 2
    /\ response.body = cached

\* the pass failed at the browse request: no callback was ever started
FetchFailed == pc = "failed" /\ task = << >>

\* C8 as claimed: after a failed browse fetch the cache file is identical to
\* the file before the pass started.
C8_FetchFailLeavesFile == FetchFailed => dbFile = diskAtStart

\* C8 as amended: after a failed browse fetch a cache file that held a
\* snapshot before the pass is identical to it, and an absent or blank file
\* holds the empty snapshot readDatabase initialised it to; nothing else is
\* written.
C8_FetchFailLeavesSnapshot ==
    FetchFailed =>
        /\ response = ErrorResponse
        /\ dbFile = diskAfterRead
        /\ IF diskAtStart.kind = "json"
           THEN dbWrites = 0 /\ dbFile = diskAtStart
           ELSE dbWrites = 1 /\ dbFile = writeDatabase(defaultData)

\* the browse fetch fails over a cache file that holds two items
C8_Witness ==
    /\ FetchFailed
    /\ diskAtStart.kind = "json"
    /\ Len(diskAtStart.items) = 2
    /\ dbFile = diskAtStart

\* C4: after every persist the counters of the cache file are the numbers of
\* entries of items and of containers.
C4_CountersMatch ==
    dbFile.kind = "json" =>
        /\ dbFile.metadata.totalItems = Len(dbFile.items)
        /\ dbFile.metadata.totalContainers = Len(ensureArray(dbFile.containers))

\* C5: a pass that is answered with the listing of the pass before it has an
\* empty diff and writes nothing: the cache file is the one the first pass left.
C5_SecondPassIdle ==
    (replay /\ pc = "done") =>
        /\ itemsToScan = << >>
        /\ toRemove = << >>
        /\ dbWrites = 0
        /\ dbFile = diskAtStart

\* C6: the failure of one item's enrichment never fails the pass: a pass
\* fails at the browse request only, before any callback has started.
C6_EnrichmentFailureIsolated == pc = "failed" => task = << >>

\* the batch size of the server that runs
BatchSize == IF variant = "coarse" THEN CONCURRENT_LIMIT ELSE LIMIT

\* the batch of the k-th item
BatchNo(k) == (k - 1) \div BatchSize

InFlight == {k \in DOMAIN task : Running(k)}

\* C7: bounded concurrency.  In either variant at most a batch size of
\* callbacks are started and not finished, all of them of one batch, and no
\* callback of a batch has started while one of an earlier batch has not
\* finished.
C7_BoundedConcurrency ==
    /\ Cardinality(InFlight) <= BatchSize
    /\ \A j, k \in InFlight : BatchNo(j) = BatchNo(k)
    /\ \A j, k \in DOMAIN task :
          (BatchNo(j) < BatchNo(k) /\ task[k].st # "wait")
              => task[j].st \in {"done", "threw"}

\* a whole batch of the fine variant is in flight while an item of the next
\* batch waits
C7_Witness ==
    /\ variant = "fine"
    /\ pc = "enriching"
    /\ Cardinality(InFlight) = LIMIT
    /\ \E k \in DOMAIN task : task[k].st = "wait"

\* C9: an item that is cached and scanned again is, in the answer of a pass
\* that asked for metadata, either a re-enriched record (one with a quality)
\* or its cached record unchanged.
C9_NoDegradedOverwrite ==
    (Returned /\ includeMetadata) =>
        \A k \in 1..Len(itemsToScan) :
            LET id == itemsToScan[k].id
            IN  HasId(cached.items, id) =>
                    LET c == MapGet(cached.items, id)
                        m == MapGet(response.body.items, id)
                    IN  m = c \/ "quality" \in DOMAIN m

\* C10: a pass that asks for metadata over an empty cache and a listing of one
\* item answers with one item that has an albumArtUrl and a quality label.
C10_FirstSyncEnriched ==
    (Returned /\ includeMetadata /\ cached.items = << >> /\ Len(didl.item) = 1) =>
        /\ Len(response.body.items) = 1
        /\ LET m == response.body.items[1]
           IN  /\ ~Falsy(Get(m, "albumArtUrl"))
               /\ "quality" \in DOMAIN m
               /\ ~Falsy(m.quality.label)

\* the pass has read the cache and has not persisted: it waits for the
\* listing, runs its batches, or has failed
BeforePersisted == pc \in {"fetching", "enriching", "failed"}

\* the writes readDatabase made when it initialised the cache file
InitWrites == IF diskAfterRead = diskAtStart THEN 0 ELSE 1

\* C11 as claimed: a pass writes the cache file at most once, and in every
\* state of the pass before it has persisted the file is the one that
\* existed before the pass.
C11_ReadThenReplace ==
    /\ dbWrites <= 1
    /\ BeforePersisted => dbFile = diskAtStart

\* C11 as amended: the one write a pass can make before it persists is the
\* initialisation of an absent or blank cache file by the initial read; a
\* file that held a snapshot is the same file in every state before the
\* pass has persisted; the pass persists at most once, and only when it has
\* answered and every callback of every batch has returned.
C11_ReadThenReplaceAfterInit ==
    /\ diskAtStart.kind = "json" => InitWrites = 0
    /\ InitWrites = 1 => diskAfterRead = writeDatabase(defaultData)
    /\ BeforePersisted => dbFile = diskAfterRead /\ dbWrites = InitWrites
    /\ dbWrites <= InitWrites + 1
    /\ dbWrites > InitWrites =>
          /\ pc = "done"
          /\ \A k \in DOMAIN task : task[k].st = "done"

\* the second batch of a pass is running over a cache that held items, and
\* the cache file is still the one the pass found
C11_Witness ==
    /\ variant = "fine"
    /\ pc = "enriching"
    /\ batchStart > 0
    /\ \E k \in DOMAIN task : Running(k)
    /\ cached.items # << >>
    /\ diskAtStart.kind = "json"
    /\ dbFile = diskAtStart

\* no two entries of its share an id
UniqueIds(its) == \A j, k \in 1..Len(its) : its[j].id = its[k].id => j = k

\* C12: in either variant the items of the cache file and the items of every
\* snapshot a pass answers with hold no id twice.
C12_UniqueItemIds ==
    /\ dbFile.kind = "json" => UniqueIds(dbFile.items)
    /\ response.kind = "json" => UniqueIds(response.body.items)

\* url is the default placeholder or the URL of a file of the directory dir
ArtUrlResolves(url, dir) == url = DefaultArtUrl \/ \E f \in dir : url = ArtUrl(f)

\* C13: in either variant every item of the cache file that has an albumArtUrl
\* has the default placeholder's or that of a file in the album-art directory.
C13_ArtUrlsResolve ==
    dbFile.kind = "json" =>
        \A k \in 1..Len(dbFile.items) :
            "albumArtUrl" \in DOMAIN dbFile.items[k]
                => ArtUrlResolves(dbFile.items[k].albumArtUrl, albumArtDir)

\* C14: the snapshot a completed pass answers with holds the containers of
\* the listing when the listing has at least one, and the cached containers
\* when it has none.
C14_ContainersReplaced ==
    Returned =>
        IF Len(ensureArray(didl.container)) >= 1
        THEN ensureArray(response.body.containers) = ensureArray(didl.container)
        ELSE response.body.containers = cached.containers

(***************************************************************************)
(* The trailing scan                                                       *)
(***************************************************************************)
\* the scan has run over the buffer of this request
Scanned == artPc = "answered" /\ frame.kind = "frame"

\* the buffer holds the whole frame and the frame declares the length of
\* its content, as ID3v2.3 defines the size field
WellFormed(t) ==
    /\ t.cut = Len(FrameBytes(t.parts))
    /\ t.parts.size = ApicContentLen(t.parts)

\* C15: when the trailing buffer holds "ID3", later "APIC", a valid size
\* field, the flags, the encoding byte, a NUL-terminated MIME string, the
\* picture-type byte and a NUL-terminated description, getAlbumArtForDSD
\* returns a picture whose data starts right after the description's NUL and
\* is as long as the frame declares (or, read with the frame's header left
\* out, is the frame's picture); a buffer without "APIC" gives null.
C15_ScanReturnsDeclaredPayload ==
    Scanned =>
        /\ WellFormed(frame) =>
              /\ albumArt.kind = "picture"
              /\ albumArt.data = SubSeq(buffer, PayloadStart(frame.parts) + 1,
                                        PayloadStart(frame.parts) + Len(albumArt.data))
              /\ \/ Len(albumArt.data) = frame.parts.size
                 \/ albumArt.data = frame.parts.payload
        /\ IndexOf(buffer, APIC, 0) = -1 => albumArt.kind = "null"

\* every step of the frame walk stays inside the buffer: both markers are
\* there, the size field, the flags, the encoding byte and the picture-type
\* byte lie before the buffer's end, both NUL terminators are found, and the
\* payload lies between the description's NUL and APIC offset + frame size,
\* which is not past the buffer's end
WalkInBounds(buf) ==
    LET id3Index == IndexOf(buf, ID3, 0)
        apicIndex == IndexOf(buf, APIC, id3Index)
        mimeEnd == IndexOf(buf, <<0>>, apicIndex + 11)
        descEnd == IndexOf(buf, <<0>>, mimeEnd + 2)
    IN  /\ id3Index # -1
        /\ apicIndex # -1
        /\ apicIndex + 8 <= Len(buf)
        /\ apicIndex + 10 < Len(buf)
        /\ mimeEnd # -1
        /\ mimeEnd + 1 < Len(buf)
        /\ descEnd # -1
        /\ descEnd + 1 <= apicIndex + readUInt32BE(buf, apicIndex + 4)
        /\ apicIndex + readUInt32BE(buf, apicIndex + 4) <= Len(buf)

\* C16: when a marker is absent, or a step of the frame walk would read at or
\* past the buffer's end or finds no NUL terminator, getAlbumArtForDSD returns
\* null; it returns no picture built from offsets outside the frame.
C16_ScanOutOfBoundsIsNull ==
    Scanned /\ ~WalkInBounds(buffer) => albumArt.kind = "null"

(***************************************************************************)
(* Reuse of cached records                                                 *)
(***************************************************************************)
\* the remote item's id is cached with the item's title and resolved URL
Unchanged(r) ==
    /\ HasId(cached.items, r.id)
    /\ r.dcTitle = Get(MapGet(cached.items, r.id), "title")
    /\ ResolvedUrl(r) = Get(MapGet(cached.items, r.id), "url")

\* the record of the id in the answer and in the cache file is the cached one
Reused(id) ==
    /\ HasId(response.body.items, id)
    /\ MapGet(response.body.items, id) = MapGet(cached.items, id)
    /\ dbFile.kind = "json"
    /\ HasId(dbFile.items, id)
    /\ MapGet(dbFile.items, id) = MapGet(cached.items, id)

\* C17 as claimed: every remote item whose id is cached with the same title
\* and the same resolved URL is not enriched again, and its record in the
\* merged snapshot is its cached record, whatever else the pass changes.
C17_VerbatimReuse ==
    Returned =>
        \A k \in 1..Len(didl.item) :
            Unchanged(didl.item[k]) =>
                ~InToScan(didl.item[k]) /\ Reused(didl.item[k].id)

\* every entry of the listing that carries the id is unchanged
NoChangedTwin(id) ==
    \A j \in 1..Len(didl.item) : didl.item[j].id = id => Unchanged(didl.item[j])

\* C17 as the code has it: every remote item whose id is cached with the same
\* title and the same resolved URL is not enriched again; its record in the
\* merged snapshot is its cached record when the listing holds no other entry
\* of the same id with another title or URL (such an entry is enriched and
\* replaces the record of the id).
C17_VerbatimReuseOfSingleEntries ==
    Returned =>
        \A k \in 1..Len(didl.item) :
            Unchanged(didl.item[k]) =>
                /\ ~InToScan(didl.item[k])
                /\ NoChangedTwin(didl.item[k].id) => Reused(didl.item[k].id)

\* an unchanged item kept its cached record, enriched fields included, in a
\* pass that enriched another item and wrote the file
C17_Witness ==
    /\ Returned
    /\ itemsToScan # << >>
    /\ dbWrites > InitWrites
    /\ \E k \in 1..Len(didl.item) :
          /\ Unchanged(didl.item[k])
          /\ NoChangedTwin(didl.item[k].id)
          /\ Reused(didl.item[k].id)
          /\ MapGet(cached.items, didl.item[k].id)
                # JsonItem(TransformItem(didl.item[k]))

(***************************************************************************)
(* The order of the extraction strategies                                  *)
(***************************************************************************)
\* the extraction for the file has ended with null
ArtIsNull == artPc = "answered" /\ artAnswer = "404"

\* every enriched item of a snapshot refers to the default placeholder
AllPlaceholder(its) ==
    \A k \in 1..Len(its) :
        "albumArtUrl" \in DOMAIN its[k] => its[k].albumArtUrl = DefaultArtUrl

\* C18: the prefix strategy is tried first and the trailing scan only after
\* the prefix strategy returned null; the extraction ends with null only when
\* both strategies returned null, and then the albumArtUrl of the enriched
\* item is the default placeholder.
C18_ArtOrderAndFallback ==
    /\ tried \in {<< >>, <<"prefix">>, <<"prefix", "trailing">>}
    /\ artPc = "trailing" => albumArt.kind = "null"
    /\ ArtIsNull =>
          /\ tried = <<"prefix", "trailing">>
          /\ albumArt.kind = "null"
          /\ dbFile.kind = "json" => AllPlaceholder(dbFile.items)
          /\ response.kind = "json" => AllPlaceholder(response.body.items)

(***************************************************************************)
(* The check of the album-art directory                                    *)
(***************************************************************************)
\* the extensions under which saveAlbumArtToFile saves the pictures served
SavedExts == {ArtExt(a) : a \in {r \in ArtResponsesCache : r.ok /\ r.picture}}

\* the files of the directory with the name derived from the item and the date
ArtFilesOf(item, date, dir) ==
    {f \in dir : \E ext \in SavedExts :
                    f = createFileName(item.title, date, item.artist) \o "." \o ext}

\* C19: when the enrichment of an item finds a file of the derived name in the
\* album-art directory, under any extension art is saved with, it sends no
\* art HEAD or ranged GET for the item (the callback does not go on to the
\* HEAD), and the item's albumArtUrl refers to a file of that name.
C19_CacheCheckFirst ==
    [][\A k \in DOMAIN task :
          (k \in DOMAIN task' /\ task[k].st = "probe") =>
              /\ task'[k].st = "head" =>
                    ArtFilesOf(TaskItem(k), DateForFile(task'[k].meta), albumArtDir) = {}
              /\ task'[k].st = "done" =>
                    LET files == ArtFilesOf(TaskItem(k), Get(task'[k].out, "date"),
                                            albumArtDir)
                    IN  files # {} =>
                            \E f \in files : task'[k].out.albumArtUrl = ArtUrl(f)]_vars

(***************************************************************************)
(* The order and the independence of the batch results                     *)
(***************************************************************************)
\* the record is the enrichment of the raw item: it has the raw item's fields
EnrichmentOf(rec, raw) ==
    \A f \in DOMAIN TransformItem(raw) : f \in DOMAIN rec /\ rec[f] = TransformItem(raw)[f]

\* an enriching pass has answered
Enriched == Returned /\ includeMetadata /\ itemsToScan # << >>

\* the collected items are those of itemsToScan, position by position, and
\* the answer is the merge of them
OrderKept ==
    /\ (pc = "enriching" \/ Enriched) =>
          /\ Len(items) <= Len(itemsToScan)
          /\ \A j \in 1..Len(items) : EnrichmentOf(items[j], itemsToScan[j])
    /\ Enriched =>
          /\ Len(items) = Len(itemsToScan)
          /\ response.body.items = JsonBody(Merged(didl, cached, toRemove, items)).items

\* the first batch of the first pass the server runs is under way: the
\* album-art directory was empty when the batch started
FirstBatch == diskAtStart.kind # "json" /\ pc = "enriching" /\ batchStart = 0

\* a callback of the first batch takes no art from the directory: what the
\* directory holds by then was saved by a sibling that completed earlier
NoSiblingArt ==
    \A k \in DOMAIN task :
        (FirstBatch /\ k \in DOMAIN task' /\ task[k].st = "probe" /\ task'[k].st = "done")
            => task'[k].out.albumArtUrl = DefaultArtUrl

\* C20: the enriched items are in the order of itemsToScan, batch after batch
\* and position by position, whatever the order in which the callbacks
\* complete, and the merged list is the same for every interleaving: no
\* record depends on how far the siblings of its batch have got.
C20_PositionalAndInterleavingFree ==
    [][OrderKept /\ OrderKept' /\ NoSiblingArt]_vars

(***************************************************************************)
(* The range and the timeouts of the art extractor's GET                   *)
(***************************************************************************)
\* the cap of the server that runs
Cap == IF variant = "coarse" THEN maxBytes ELSE maxBytesVite

\* the art extractor's ranged GET is in flight
ArtGetSent == fetchPc = "get" /\ range.kind = "bytes"

\* C21: whatever the HEAD reported (a length equal to the cap, a length of 0,
\* no content-length), the last byte of the range getAlbumArt asks for is
\* min(file length - 1, cap), and it is no byte at or past the end of the file.
C21_PrefixRangeEnd ==
    ArtGetSent =>
        /\ range.last = Min(fileSize - 1, Cap)
        /\ range.last < fileSize

\* C22: in either server, the abort timer in effect on the art extractor's
\* ranged GET is strictly longer than the one on the metadata probe's GET.
C22_ArtTimeoutLonger == ArtGetSent => artTimeout > probeTimeout

(***************************************************************************)
(* The initialisation of the cache file                                    *)
(***************************************************************************)
\* a snapshot without containers and without items
EmptySnapshot(d) == d.items = << >> /\ d.containers = EmptyArray

\* the handler has returned from readDatabase and has done nothing else yet
JustRead == pc = "fetching"

\* C23: readDatabase on an absent cache file, or on one that is empty or
\* holds white space only, returns the empty snapshot and leaves a
\* well-formed empty snapshot in the file; a readDatabase that follows
\* returns an empty snapshot and does not initialise the file again.
C23_EmptyStoreInitialised ==
    /\ (JustRead /\ diskAtStart.kind \in {"absent", "blank"}) =>
          /\ EmptySnapshot(cached)
          /\ dbWrites = 1
          /\ dbFile.kind = "json"
          /\ EmptySnapshot(dbFile)
          /\ dbFile.metadata.totalItems = 0
          /\ dbFile.metadata.totalContainers = 0
          /\ readDatabase(dbFile).wrote = 0
          /\ readDatabase(dbFile).file = dbFile
          /\ EmptySnapshot(readDatabase(dbFile).data)
    /\ (JustRead /\ diskAtStart = writeDatabase(defaultData)) =>
          /\ EmptySnapshot(cached)
          /\ dbWrites = 0
          /\ dbFile = diskAtStart

\* a pass has read the file that the pass before it initialised
C23_Witness ==
    /\ JustRead
    /\ diskAtStart = writeDatabase(defaultData)
    /\ EmptySnapshot(cached)
    /\ dbWrites = 0
    /\ cached.metadata.totalItems = 0

(***************************************************************************)
(* The ids of the returned snapshot                                        *)
(***************************************************************************)
\* C24: after every completed pass of the fine variant, by the short-circuit
\* and by the merge alike, the item ids of the returned snapshot are the item
\* ids of the listing just fetched.
C24_ReturnedIdsAreRemoteIds ==
    (variant = "fine" /\ Returned) => Ids(response.body.items) = Ids(didl.item)

\* a pass whose listing has none of the cached ids has answered: the items
\* of the container browsed before are gone
C24_Witness ==
    /\ variant = "fine"
    /\ Returned
    /\ Ids(cached.items) = {"1"}
    /\ Ids(didl.item) = {"2"}
    /\ Ids(response.body.items) = {"2"}
    /\ Ids(dbFile.items) = {"2"}

\* both invocations have answered, and the second read the cache before the
\* first wrote
BothDone == pc = "done" /\ pc2 = "done" /\ overlap

\* the first invocation has called writeDatabase(merged)
Persisted1 == dbWrites > InitWrites

\* the cache file is the document writeDatabase leaves for the snapshot body
WrittenFrom(body) ==
    /\ dbFile.kind = "json"
    /\ dbFile.items = body.items
    /\ dbFile.containers = OrValue(body.containers, EmptyArray)

\* the cache file is the merge of one of the two invocations, whole
OneMerge ==
    \/ Persisted1 /\ response.kind = "json" /\ WrittenFrom(response.body)
    \/ persisted2 /\ response2.kind = "json" /\ WrittenFrom(response2.body)

\* C25: when two passes overlap and at least one of them persists, the cache
\* file after both have answered is the merge of exactly one of them, computed
\* from the snapshot that pass read: no mixture of the two item sets, no id
\* twice, and counters that match the entries.
C25_OverlapLastWriterWins ==
    (BothDone /\ (Persisted1 \/ persisted2)) =>
        /\ OneMerge
        /\ UniqueIds(dbFile.items)
        /\ dbFile.metadata.totalItems = Len(dbFile.items)
        /\ dbFile.metadata.totalContainers = Len(ensureArray(dbFile.containers))

\* the same without the container counter
C25_OverlapWholeSnapshot ==
    (BothDone /\ (Persisted1 \/ persisted2)) =>
        /\ OneMerge
        /\ UniqueIds(dbFile.items)
        /\ dbFile.metadata.totalItems = Len(dbFile.items)

\* both persisted different item sets and the file holds that of the second
C25_Witness ==
    /\ BothDone /\ Persisted1 /\ persisted2
    /\ Ids(response.body.items) = {"1"}
    /\ Ids(response2.body.items) = {"2"}
    /\ Ids(dbFile.items) = {"2"}

\* a pass is under way
PassRunning == pc \in {"fetching", "enriching"}

\* the pass has answered: a snapshot or a failure
PassEnded == pc \in {"done", "failed"}

\* C26: every started pass eventually ends, whether or not the media server
\* answers its requests.
C26_PassEventuallyEnds == PassRunning ~> PassEnded

\* the same for the passes of vite.config.js alone
C26_FinePassEnds == (variant = "fine" /\ PassRunning) ~> PassEnded

\* once its listing has arrived, a pass ends even if the server turns silent
C26_EnrichmentEnds == (pc = "enriching") ~> PassEnded

====
